---------------------------- MODULE Spec2Model ----------------------------
(***************************************************************************)
(* clang-format-launcher: a command-line wrapper that lists the files      *)
(* tracked by git, filters them by path rules, and runs clang-format on    *)
(* them in chunks of 30, one child process per chunk, in series.           *)
(*                                                                         *)
(* The repository holds three versions of the launcher:                    *)
(*   "index"   src/src/index.ts                                            *)
(*   "gitRoot" src/unnamed/part_000, lines 1-371                           *)
(*   "folder"  src/unnamed/part_000, lines 373-700                         *)
(* The variable `variant` says which of them is running.  Strings are      *)
(* TLA+ strings; Len, SubSeq and \o act on them as on character sequences. *)
(***************************************************************************)
EXTENDS Integers, Sequences, FiniteSets, TLC

VARIABLES
    variant,    \* which version of the launcher runs
    argv,       \* process.argv.slice(2): the user's arguments
    env,        \* the world: config files, getNativeBinary, git ls-tree
    pc,         \* "start" before main() ran, "loop" in the event loop, "exited"
    config,     \* the module-level configuration (filter rules, root, style)
    args,       \* the argument vector main() composed
    files,      \* spawnClangFormat's `files` after the filter
    chunks,     \* spawnClangFormat's `chunks`
    launched,   \* argument vector of every formatter process spawned, in order
    exits,      \* exits[i]: exit code of launched[i], -1 while it runs
    immediate,  \* a setImmediate(done.bind(e)) callback is queued
    errors,     \* index.ts: the `errors` list of main()
    doneLog,    \* the argument of every call of `done`, in order
    exitCode,   \* exit code of the launcher process, -1 while it runs
    trace       \* what the run did, in order: [ev, n] with ev one of "help",
                \* "loadConfig", "noBinary" (getNativeBinary threw), "ls-tree",
                \* "filter" (n files kept), "spawn" and "close" (child n), "ran"
                \* (the message, n files), "status" (git status -s: n = 0 clean,
                \* 1 dirty, 2 git failed), "exit" (code n)

vars == <<variant, argv, env, pc, config, args, files, chunks, launched,
          exits, immediate, errors, doneLog, exitCode, trace>>

-----------------------------------------------------------------------------
(* Program constants *)

VERIFY_FLAG == "-verify"
RAW_FLAG == "-raw"
VERBOSE_FLAG == "--verbose"
HELP_FLAG == "--help"
VERSION_FLAG == "--version"
LAUNCHER == "clang-format-launcher"

chunkSize == 30

Variants == {"index", "gitRoot", "folder"}

-----------------------------------------------------------------------------
(* JavaScript string and array primitives *)

Min(a, b) == IF a < b THEN a ELSE b

\* String.prototype.endsWith
endsWith(s, t) ==
    /\ Len(t) <= Len(s)
    /\ SubSeq(s, Len(s) - Len(t) + 1, Len(s)) = t

\* String.prototype.startsWith
startsWith(s, t) ==
    /\ Len(t) <= Len(s)
    /\ SubSeq(s, 1, Len(t)) = t

\* String.prototype.indexOf: the first 0-based position of t in s, or -1
RECURSIVE indexOfFrom(_, _, _)
indexOfFrom(s, t, i) ==
    IF i + Len(t) > Len(s) THEN -1
    ELSE IF SubSeq(s, i + 1, i + Len(t)) = t THEN i
    ELSE indexOfFrom(s, t, i + 1)

indexOf(s, t) == indexOfFrom(s, t, 0)

\* Array.prototype.indexOf on an array of strings
RECURSIVE arrayIndexOfFrom(_, _, _)
arrayIndexOfFrom(a, x, i) ==
    IF i >= Len(a) THEN -1
    ELSE IF a[i + 1] = x THEN i
    ELSE arrayIndexOfFrom(a, x, i + 1)

arrayIndexOf(a, x) == arrayIndexOfFrom(a, x, 0)

\* Array.prototype.slice(i, j) with 0 <= i <= j
slice(a, i, j) == SubSeq(a, i + 1, Min(j, Len(a)))


-----------------------------------------------------------------------------
(* Configuration *)

\* The module-level defaults of each version
config_gitRoot ==
    [includeEndsWith |-> {}, excludePathContains |-> {},
     excludePathEndsWith |-> {}, excludePathStartsWith |-> {},
     root |-> "/cwd", style |-> "--style=file"]

config_folder ==
    [includeEndsWith |-> {".h", ".cpp"}, excludePathContains |-> {},
     excludePathEndsWith |-> {".g.h", ".g.cpp"}, excludePathStartsWith |-> {},
     root |-> "/cwd", style |-> "--style=file"]

config_index == config_folder

defaultConfig(v) ==
    CASE v = "gitRoot" -> config_gitRoot
      [] v = "folder" -> config_folder
      [] OTHER -> config_index

\* path.isAbsolute and path.resolve(base, p) on POSIX paths.  "/cwd" stands
\* for the base directory of each version:
\* process.cwd(), or the project directory three levels above __dirname.
isAbsolute(p) == startsWith(p, "/")

\* The segments of a path between its "/" separators, from position i on
RECURSIVE splitPath(_, _, _, _)
splitPath(p, i, start, acc) ==
    IF i > Len(p) THEN Append(acc, SubSeq(p, start, Len(p)))
    ELSE IF SubSeq(p, i, i) = "/"
    THEN splitPath(p, i + 1, i + 1, Append(acc, SubSeq(p, start, i - 1)))
    ELSE splitPath(p, i + 1, start, acc)

\* Normalisation: "" and "." are dropped, ".." drops the segment before it
\* and is itself dropped at the root
RECURSIVE normalizeSegments(_, _)
normalizeSegments(segs, acc) ==
    IF segs = <<>> THEN acc
    ELSE IF Head(segs) \in {"", "."} THEN normalizeSegments(Tail(segs), acc)
    ELSE IF Head(segs) = ".."
    THEN normalizeSegments(Tail(segs),
                           IF acc = <<>> THEN acc
                           ELSE SubSeq(acc, 1, Len(acc) - 1))
    ELSE normalizeSegments(Tail(segs), Append(acc, Head(segs)))

RECURSIVE joinSegments(_)
joinSegments(segs) ==
    IF segs = <<>> THEN ""
    ELSE "/" \o Head(segs) \o joinSegments(Tail(segs))

pathResolve(cwd, p) ==
    LET joined == IF isAbsolute(p) THEN p ELSE cwd \o "/" \o p
        segs == normalizeSegments(splitPath(joined, 1, 1, <<>>), <<>>)
    IN  IF segs = <<>> THEN "/" ELSE joinSegments(segs)

\* A file of the world is absent, or holds text that is not JSON, or holds a
\* JSON object `json` (a function from its keys to their values).
fileExists(f) == f.exists

\* hasPackageJsonLauncherKey: unparsable text counts as "no key"
hasPackageJsonLauncherKey(f) ==
    IF f.valid THEN LAUNCHER \in DOMAIN f.json ELSE FALSE

\* resolveConfigPath: the first candidate that passes, or "undefined"
resolveConfigPath(e) ==
    LET candidates == <<"package.json", "cwd", "packaged">>
        file(name) == CASE name = "package.json" -> e.pkg
                        [] name = "cwd" -> e.conf
                        [] OTHER -> e.dflt
        pass(name) ==
            IF fileExists(file(name))
            THEN IF name = "package.json"
                 THEN hasPackageJsonLauncherKey(file(name))
                 ELSE TRUE
            ELSE FALSE
        found == SelectSeq(candidates, pass)
    IN  IF found = <<>> THEN [defined |-> FALSE]
        ELSE [defined |-> TRUE, name |-> found[1], file |-> file(found[1])]

\* a ?? b on a field of a parsed configuration object
orElse(conf, field, dflt) ==
    IF field \in DOMAIN conf THEN conf[field] ELSE dflt

\* The six assignments shared by the three loadConfig versions
mergeConfig(conf, c, rootKey) ==
    LET r == orElse(conf, rootKey, c.root) IN
    [includeEndsWith |-> orElse(conf, "includeEndsWith", c.includeEndsWith),
     excludePathContains |->
         orElse(conf, "excludePathContains", c.excludePathContains),
     excludePathEndsWith |->
         orElse(conf, "excludePathEndsWith", c.excludePathEndsWith),
     excludePathStartsWith |->
         orElse(conf, "excludePathStartsWith", c.excludePathStartsWith),
     root |-> IF isAbsolute(r) THEN r ELSE pathResolve("/cwd", r),
     style |-> orElse(conf, "style", c.style)]

\* A loadConfig that keeps the defaults when the resolved source does not parse
loadConfig_lenient(e, c) ==
    LET resolved == resolveConfigPath(e) IN
    IF ~resolved.defined THEN [ok |-> FALSE, config |-> c]
    ELSE IF ~resolved.file.valid THEN [ok |-> TRUE, config |-> c]
    ELSE LET json == resolved.file.json
             conf == IF LAUNCHER \in DOMAIN json THEN json[LAUNCHER] ELSE json
         IN  [ok |-> TRUE, config |-> mergeConfig(conf, c, "gitRoot")]

\* loadConfig: [ok |-> FALSE] stands for process.exit(1)
loadConfig_gitRoot(e, c) ==
    LET resolved == resolveConfigPath(e) IN
    IF ~resolved.defined THEN [ok |-> FALSE, config |-> c]
    ELSE IF ~resolved.file.valid THEN [ok |-> FALSE, config |-> c]
    ELSE LET json == resolved.file.json
             conf == IF LAUNCHER \in DOMAIN json THEN json[LAUNCHER] ELSE json
         IN  [ok |-> TRUE, config |-> mergeConfig(conf, c, "gitRoot")]

loadConfig_folder(e, c) ==
    IF fileExists(e.conf)
    THEN IF ~e.conf.valid THEN [ok |-> FALSE, config |-> c]
         ELSE [ok |-> TRUE, config |-> mergeConfig(e.conf.json, c, "folder")]
    ELSE [ok |-> TRUE, config |-> c]

loadConfig_index(e, c) == loadConfig_folder(e, c)

loadConfig(v, e, c) ==
    CASE v = "gitRoot" -> loadConfig_gitRoot(e, c)
      [] v = "folder" -> loadConfig_folder(e, c)
      [] OTHER -> loadConfig_index(e, c)

-----------------------------------------------------------------------------
(* Tracked files, path filter, chunks *)

\* git(): spawnSync could not start git (no such directory, no git on PATH),
\* so results.status and results.stderr are null and
\* results.stderr.toString() throws
gitThrows(e) == ~e.gitStarts

\* A listing that splits what git printed whatever its exit status
listAllTrackedFiles_anyStatus(e) ==
    IF e.lsLines = <<>> THEN <<"">> ELSE e.lsLines

\* listAllTrackedFiles: the lines git ls-tree printed, or [] if git failed.
\* stdout.trim().split("\n") of empty output is [""], one empty path.
listAllTrackedFiles(e) ==
    IF e.lsOk
    THEN IF e.lsLines = <<>> THEN <<"">> ELSE e.lsLines
    ELSE <<>>

\* The filter predicate of each version
retained_gitRoot(file, c) ==
    /\ \E s \in c.includeEndsWith : endsWith(file, s)
    /\ ~ \E s \in c.excludePathContains : indexOf(file, s) >= 0
    /\ ~ \E s \in c.excludePathEndsWith : endsWith(file, s)
    /\ ~ \E s \in c.excludePathStartsWith : startsWith(file, s)

retained_folder(file, c) ==
    /\ \E s \in c.includeEndsWith : endsWith(file, s)
    /\ ~ \E s \in c.excludePathContains : indexOf(file, s) >= 0
    /\ ~ \E s \in c.excludePathEndsWith : endsWith(file, s)
    /\ ~ \E s \in c.excludePathStartsWith : startsWith(file, s)

retained_index(file, c) ==
    /\ \E s \in c.includeEndsWith : endsWith(file, s)
    /\ ~ \E s \in c.excludePathContains : indexOf(file, s) > 0
    /\ ~ \E s \in c.excludePathEndsWith : endsWith(file, s)
    /\ ~ \E s \in c.excludePathStartsWith : startsWith(file, s)

retained(v, file, c) ==
    CASE v = "gitRoot" -> retained_gitRoot(file, c)
      [] v = "folder" -> retained_folder(file, c)
      [] OTHER -> retained_index(file, c)

\* A filter that collects with unshift instead of push: kept files reversed
filterFiles_unshift(v, list, c) ==
    LET kept == SelectSeq(list, LAMBDA file : retained(v, file, c))
    IN  [i \in 1..Len(kept) |-> kept[Len(kept) + 1 - i]]

\* files = files.filter(...)
filterFiles(v, list, c) == SelectSeq(list, LAMBDA file : retained(v, file, c))

\* for (i = 0, j = files.length; i < j; i += chunkSize) chunks.push(slice)
RECURSIVE chunkLoop(_, _, _)
chunkLoop(list, i, acc) ==
    IF i < Len(list)
    THEN chunkLoop(list, i + chunkSize,
                   Append(acc, slice(list, i, i + chunkSize)))
    ELSE acc

\* A chunk loop whose slice takes its end index too
RECURSIVE chunkLoop_inclusiveEnd(_, _, _)
chunkLoop_inclusiveEnd(list, i, acc) ==
    IF i < Len(list)
    THEN chunkLoop_inclusiveEnd(list, i + chunkSize,
                                Append(acc, slice(list, i, i + chunkSize + 1)))
    ELSE acc

makeChunks_inclusiveEnd(list) == chunkLoop_inclusiveEnd(list, 0, <<>>)

makeChunks(list) == chunkLoop(list, 0, <<>>)

-----------------------------------------------------------------------------
(* main(): flags and the argument vector *)

\* process.argv: the node binary, the script, then the user's arguments
processArgv(a) == <<"node", "clang-format-launcher">> \o a

hasFlag_index(a, flag) == arrayIndexOf(processArgv(a), flag) > 0
hasFlag_gitRoot(a, flag) == arrayIndexOf(processArgv(a), flag) # -1
hasFlag_folder(a, flag) == arrayIndexOf(processArgv(a), flag) # -1

hasFlag(v, a, flag) ==
    CASE v = "gitRoot" -> hasFlag_gitRoot(a, flag)
      [] v = "folder" -> hasFlag_folder(a, flag)
      [] OTHER -> hasFlag_index(a, flag)

\* `raw` of index.ts; `useRaw` of the two later versions
useRaw_index(a) == hasFlag_index(a, RAW_FLAG)

useRaw_gitRoot(a) ==
    \/ hasFlag_gitRoot(a, RAW_FLAG)
    \/ hasFlag_gitRoot(a, VERSION_FLAG)
    \/ hasFlag_gitRoot(a, HELP_FLAG)

useRaw_folder(a) ==
    \/ hasFlag_folder(a, RAW_FLAG)
    \/ hasFlag_folder(a, VERSION_FLAG)
    \/ hasFlag_folder(a, HELP_FLAG)

useRaw(v, a) ==
    CASE v = "gitRoot" -> useRaw_gitRoot(a)
      [] v = "folder" -> useRaw_folder(a)
      [] OTHER -> useRaw_index(a)

\* process.argv.slice(2).filter((_) => _ !== VERIFY_FLAG && _ !== RAW_FLAG)
userArgs(a) ==
    SelectSeq(slice(processArgv(a), 2, Len(processArgv(a))),
              LAMBDA x : x # VERIFY_FLAG /\ x # RAW_FLAG)

\* An argument vector with the style pushed at the end instead of the front
composeArgs_styleLast(verify, style, a) ==
    LET moded == IF verify THEN <<"-Werror", "--dry-run">> \o a
                 ELSE <<"-Werror", "-i">> \o a
    IN  IF style # "" THEN moded \o <<style>> ELSE moded

\* The `if (!useRaw) { ... }` block after loadConfig
composeArgs_gitRoot(verify, style, a) ==
    LET moded == IF verify THEN <<"-Werror", "--dry-run">> \o a
                 ELSE <<"-Werror", "-i">> \o a
    IN  IF style # "" THEN <<style>> \o moded ELSE moded

composeArgs_folder(verify, style, a) ==
    LET moded == IF verify THEN <<"-Werror", "--dry-run", "--verbose">> \o a
                 ELSE <<"-Werror", "-i">> \o a
    IN  IF style # "" THEN <<style>> \o moded ELSE moded

composeArgs_index(verify, style, a) ==
    LET moded == IF verify THEN <<"-Werror", "--dry-run", "--verbose">> \o a
                 ELSE <<"-Werror", "-i">> \o a
    IN  IF style # "" THEN <<style>> \o moded ELSE moded

composeArgs(v, verify, style, a) ==
    CASE v = "gitRoot" -> composeArgs_gitRoot(verify, style, a)
      [] v = "folder" -> composeArgs_folder(verify, style, a)
      [] OTHER -> composeArgs_index(verify, style, a)

-----------------------------------------------------------------------------
(* The mutable state of a run, as a record the code's steps transform.  A  *)
(* step does nothing once the process has exited.                          *)

undefined == [undefined |-> TRUE]

errorFromExitCode(code) ==
    [message |-> "clang-format exited with exit code " \o ToString(code) \o "."]

isError(x) == "message" \in DOMAIN x

emit(st, ev, n) ==
    IF st.exitCode # -1 THEN st
    ELSE [st EXCEPT !.trace = Append(@, [ev |-> ev, n |-> n])]

\* process.exit(code), and the exit of node on an uncaught exception
processExit(st, code) ==
    IF st.exitCode # -1 THEN st
    ELSE [emit(st, "exit", code) EXCEPT !.exitCode = code]

\* queryNoOpenFiles: `status` is what git status -s did.  execSync throws when
\* git fails; the throw reaches main's catch or is uncaught, exit code 1 both.
queryNoOpenFiles(st, status) ==
    LET asked == emit(st, "status", CASE status = "clean" -> 0
                                      [] status = "dirty" -> 1
                                      [] OTHER -> 2)
    IN
    CASE status = "dirty" -> processExit(asked, 2)
      [] status = "fail" -> processExit(asked, 1)
      [] OTHER -> asked

\* handleDone(checkGitStatus)(error)
handleDone(st, checkGitStatus, error, status) ==
    IF st.exitCode # -1 THEN st
    ELSE LET called == [st EXCEPT !.doneLog = Append(@, error)] IN
         IF isError(error) THEN processExit(called, 3)
         ELSE IF checkGitStatus THEN queryNoOpenFiles(called, status)
         ELSE called

\* handleError(error) of index.ts
handleError(st, error) ==
    IF st.exitCode # -1 THEN st
    ELSE LET called == [st EXCEPT !.doneLog = Append(@, error)] IN
         IF isError(error) THEN [called EXCEPT !.errors = Append(@, error)]
         ELSE called

\* The `done` that main() handed to spawnClangFormat / spawnClangFormatRaw
done(v, a, st, error, status) ==
    IF v = "index" THEN handleError(st, error)
    ELSE handleDone(st, ~useRaw(v, a) /\ hasFlag(v, a, VERIFY_FLAG),
                    error, status)

\* child_process.spawn(nativeBinary, argVector, ...)
spawn(st, argVector) ==
    IF st.exitCode # -1 THEN st
    ELSE emit([st EXCEPT !.launched = Append(@, argVector),
                         !.exits = Append(@, -1)],
              "spawn", Len(st.launched) + 1)

\* The final callback of async.series without an error
seriesDone(v, a, st, status) ==
    done(v, a, emit(st, "ran", Len(st.files)), undefined, status)

\* A dispatch that starts a task together with the one after it
seriesTask_twoAtOnce(v, a, st, k, status) ==
    IF k < Len(st.chunks)
    THEN spawn(spawn(st, st.args \o st.chunks[k]),
               st.args \o st.chunks[k + 1])
    ELSE IF k = Len(st.chunks)
    THEN spawn(st, st.args \o st.chunks[k])
    ELSE seriesDone(v, a, st, status)

\* A series that makes its final callback as soon as the last task is started
seriesTask_noWait(v, a, st, k, status) ==
    IF k < Len(st.chunks)
    THEN spawn(st, st.args \o st.chunks[k])
    ELSE IF k = Len(st.chunks)
    THEN seriesDone(v, a, spawn(st, st.args \o st.chunks[k]), status)
    ELSE seriesDone(v, a, st, status)

\* async.series reaching task k (from 1): run it, or finish after the last
seriesTask(v, a, st, k, status) ==
    IF k <= Len(st.chunks)
    THEN spawn(st, st.args \o st.chunks[k])
    ELSE seriesDone(v, a, st, status)

\* The catch around the spawnClangFormat call in main(): process.exit(1)
mainCatch(st) == processExit(st, 1)

\* spawnClangFormat; an exception of git() leaves it for main's catch
spawnClangFormat(v, a, e, st, status) ==
    IF ~e.binaryOk THEN [emit(st, "noBinary", 0) EXCEPT !.immediate = TRUE]
    ELSE LET listed == emit(st, "ls-tree", 0)
             kept == filterFiles(v, listAllTrackedFiles(e), st.config)
             split == [emit(listed, "filter", Len(kept)) EXCEPT
                          !.files = kept, !.chunks = makeChunks(kept)]
         IN  IF gitThrows(e) THEN mainCatch(listed)
             ELSE seriesTask(v, a, split, 1, status)

\* spawnClangFormatRaw
spawnClangFormatRaw(e, st) ==
    IF ~e.binaryOk THEN [emit(st, "noBinary", 0) EXCEPT !.immediate = TRUE]
    ELSE spawn(st, st.args)

\* main() of the gitRoot version
main_gitRoot(a, e, st, status) ==
    LET verify == hasFlag_gitRoot(a, VERIFY_FLAG)
        help == hasFlag_gitRoot(a, HELP_FLAG)
        raw == useRaw_gitRoot(a)
        helped == IF help THEN emit(st, "help", 0) ELSE st
        loaded == loadConfig_gitRoot(e, st.config)
    IN  IF raw
        THEN spawnClangFormatRaw(e, [helped EXCEPT !.args = userArgs(a)])
        ELSE IF ~loaded.ok
        THEN processExit(emit(helped, "loadConfig", 0), 1)
        ELSE spawnClangFormat("gitRoot", a, e,
                 [emit(helped, "loadConfig", 0) EXCEPT
                     !.config = loaded.config,
                     !.args = composeArgs_gitRoot(verify, loaded.config.style,
                                                  userArgs(a))],
                 status)

\* main() of the folder version
main_folder(a, e, st, status) ==
    LET verify == hasFlag_folder(a, VERIFY_FLAG)
        help == hasFlag_folder(a, HELP_FLAG)
        raw == useRaw_folder(a)
        helped == IF help THEN emit(st, "help", 0) ELSE st
        loaded == loadConfig_folder(e, st.config)
    IN  IF raw
        THEN spawnClangFormatRaw(e, [helped EXCEPT !.args = userArgs(a)])
        ELSE IF ~loaded.ok
        THEN processExit(emit(helped, "loadConfig", 0), 1)
        ELSE spawnClangFormat("folder", a, e,
                 [emit(helped, "loadConfig", 0) EXCEPT
                     !.config = loaded.config,
                     !.args = composeArgs_folder(verify, loaded.config.style,
                                                 userArgs(a))],
                 status)

\* main() of index.ts: both branches call spawnClangFormat, then the errors
\* list is read and the status query made before any child has closed
main_index(a, e, st, status) ==
    LET verify == hasFlag_index(a, VERIFY_FLAG)
        help == hasFlag_index(a, HELP_FLAG)
        raw == useRaw_index(a)
        helped == IF help THEN emit(st, "help", 0) ELSE st
        loaded == loadConfig_index(e, st.config)
        ready == IF raw THEN [helped EXCEPT !.args = userArgs(a)]
                 ELSE [emit(helped, "loadConfig", 0) EXCEPT
                          !.config = loaded.config,
                          !.args = composeArgs_index(verify, loaded.config.style,
                                                     userArgs(a))]
        spawned == spawnClangFormat("index", a, e, ready, status)
    IN  IF ~raw /\ ~loaded.ok
        THEN processExit(emit(helped, "loadConfig", 0), 1)
        ELSE IF Len(spawned.errors) > 0 THEN processExit(spawned, 1)
        ELSE IF ~raw /\ verify THEN queryNoOpenFiles(spawned, status)
        ELSE spawned

main(v, a, e, st, status) ==
    CASE v = "gitRoot" -> main_gitRoot(a, e, st, status)
      [] v = "folder" -> main_folder(a, e, st, status)
      [] OTHER -> main_index(a, e, st, status)

\* A 'close' listener whose task calls back without the error, so that the
\* series moves on after a failed chunk
onClose_carryOn(v, a, st, i, code, status) ==
    LET closed == emit([st EXCEPT !.exits[i] = code], "close", i) IN
    IF v # "index" /\ useRaw(v, a)
    THEN IF code # 0
         THEN done(v, a, closed, errorFromExitCode(code), status)
         ELSE done(v, a, closed, undefined, status)
    ELSE seriesTask(v, a, closed, i + 1, status)

\* The 'close' listener of child i, which exited with `code`
onClose(v, a, st, i, code, status) ==
    LET closed == emit([st EXCEPT !.exits[i] = code], "close", i) IN
    IF v # "index" /\ useRaw(v, a)
    THEN \* spawnClangFormatRaw's listener
         IF code # 0
         THEN done(v, a, closed, errorFromExitCode(code), status)
         ELSE done(v, a, closed, undefined, status)
    ELSE \* the task's listener: callback(err) ends the series, callback()
         \* moves it on
         IF code # 0
         THEN done(v, a, closed, errorFromExitCode(code), status)
         ELSE seriesTask(v, a, closed, i + 1, status)

\* The child could not be started and emits 'error'; only 'close' has a
\* listener, so node throws on the unhandled event and ends with exit code 1
onUnhandledError(st, i) == processExit(st, 1)

\* setImmediate(done.bind(e)): `e` becomes `this`, done gets no argument
onImmediate(v, a, st, status) ==
    done(v, a, [st EXCEPT !.immediate = FALSE], undefined, status)

-----------------------------------------------------------------------------
(* Inputs *)

MaxFiles == 2       \* length of the short tracked-file lists
MaxRules == 1       \* entries of each filter rule
MaxChunks == 2      \* the long lists reach MaxChunks full chunks and one more file
MaxArgs == 2        \* number of user arguments

ExitCodes == {0, 1, 2}
StatusOutcomes == {"clean", "dirty", "fail"}

Absent == [exists |-> FALSE, valid |-> FALSE]
NotJson == [exists |-> TRUE, valid |-> FALSE]
Json(j) == [exists |-> TRUE, valid |-> TRUE, json |-> j]

Paths == {"a.h", "a.g.h", "ios/a.h", "x/ios/a.h", "x/a.cpp"}

RECURSIVE SeqsUpTo(_, _)
SeqsUpTo(S, n) ==
    IF n = 0 THEN {<<>>}
    ELSE LET shorter == SeqsUpTo(S, n - 1) IN
         shorter \cup {Append(q, x) : q \in {r \in shorter : Len(r) = n - 1}, x \in S}

SubsetsUpTo(S, n) == {T \in SUBSET S : Cardinality(T) <= n}

\* "f1.h", "f2.h", ...: n distinct paths
NumberedPaths(n) == [i \in 1..n |-> "f" \o ToString(i) \o ".h"]

LongLengths ==
    {n \in 0..(MaxChunks * chunkSize + 1) :
        \E k \in 0..MaxChunks : n \in {k * chunkSize - 1, k * chunkSize,
                                       k * chunkSize + 1}}

RuleFiles ==
    {Json([includeEndsWith |-> i, excludePathContains |-> c,
           excludePathEndsWith |-> x, excludePathStartsWith |-> s]) :
        i \in SubsetsUpTo({".h", ".cpp"}, MaxRules),
        c \in SubsetsUpTo({"ios/", "x/"}, MaxRules),
        x \in SubsetsUpTo({".g.h", "a.cpp"}, MaxRules),
        s \in SubsetsUpTo({"x/", "ios/"}, MaxRules)}

PackagedDefault ==
    Json([includeEndsWith |-> {".h", ".cpp"},
          excludePathContains |-> {"/ios/", "/nodejs/", "/android/"},
          excludePathEndsWith |-> {".g.h", ".g.cpp"},
          excludePathStartsWith |-> {}, style |-> "--style=file"])

Tokens == {VERIFY_FLAG, RAW_FLAG, VERSION_FLAG, HELP_FLAG, VERBOSE_FLAG, "-x"}

ArgLists ==
    {a \in SeqsUpTo(Tokens, MaxArgs) :
        \A i, j \in 1..Len(a) : i # j => a[i] # a[j]}

StyleFiles ==
    {Absent, NotJson,
     Json([includeEndsWith |-> {".h"}, style |-> ""]),
     Json([includeEndsWith |-> {".h"}, style |-> "--style=Google"])}

\* Short lists under every rule set: the path filter
InputsFilter ==
    /\ argv = <<>>
    /\ env \in [pkg : {Absent}, conf : RuleFiles, dflt : {PackagedDefault},
                binaryOk : {TRUE}, execOk : {TRUE},
                gitStarts : {TRUE}, lsOk : {TRUE},
                lsLines : SeqsUpTo(Paths, MaxFiles)]

\* Long lists: the chunks and their processes
InputsChunks ==
    /\ argv \in {<<>>, <<VERIFY_FLAG>>}
    /\ env \in [pkg : {Absent},
                conf : {Json([includeEndsWith |-> {".h"}])},
                dflt : {PackagedDefault},
                binaryOk : {TRUE}, execOk : {TRUE},
                gitStarts : {TRUE}, lsOk : {TRUE},
                lsLines : {NumberedPaths(n) : n \in LongLengths}]

\* Every argument list, with and without a formatter binary that resolves
\* and can be started, a readable configuration, a git that starts and
\* succeeds
InputsModes ==
    /\ argv \in ArgLists
    /\ env \in [pkg : {Absent}, conf : StyleFiles, dflt : {PackagedDefault},
                binaryOk : BOOLEAN, execOk : BOOLEAN,
                gitStarts : BOOLEAN, lsOk : BOOLEAN,
                lsLines : {NumberedPaths(n) : n \in {0, 1, chunkSize + 1}}]
    /\ env.binaryOk \/ env.execOk      \* no binary: nothing to start
    /\ env.gitStarts \/ ~env.lsOk      \* status 0 needs a git that started

\* What each configuration source may hold.  The three sources differ in
\* every field they give, and each leaves one field out.
ManifestKey ==
    [includeEndsWith |-> {".cpp"}, excludePathContains |-> {"ios/"},
     excludePathStartsWith |-> {"x/"}, gitRoot |-> "./manifest",
     folder |-> "./manifest", style |-> "--style=Manifest"]

DedicatedConf ==
    [includeEndsWith |-> {".h"}, excludePathEndsWith |-> {".g.h"},
     excludePathStartsWith |-> {"ios/"}, gitRoot |-> "../..",
     folder |-> "../..", style |-> "--style=Dedicated"]

PackagedConf ==
    [includeEndsWith |-> {".h", ".cpp"}, excludePathContains |-> {"x/"},
     excludePathEndsWith |-> {"a.cpp"}, gitRoot |-> "/packaged/../p",
     folder |-> "/packaged/../p"]

ManifestFiles ==
    {Absent, NotJson, Json([name |-> "project"]),
     Json([name |-> "project"] @@ (LAUNCHER :> ManifestKey))}

DedicatedFiles ==
    {Absent, NotJson, Json(DedicatedConf), Json(LAUNCHER :> DedicatedConf)}

PackagedFiles == {Absent, NotJson, Json(PackagedConf)}

\* Every combination of the three configuration sources
InputsConfig ==
    /\ argv \in {<<>>, <<VERIFY_FLAG>>, <<RAW_FLAG>>}
    /\ env \in [pkg : ManifestFiles, conf : DedicatedFiles,
                dflt : PackagedFiles, binaryOk : {TRUE}, execOk : {TRUE},
                gitStarts : {TRUE}, lsOk : {TRUE},
                lsLines : {<<"a.h", "x/a.cpp", "ios/a.h", "a.g.h">>}]

-----------------------------------------------------------------------------
(* The state machine *)

cur ==
    [config |-> config, args |-> args, files |-> files, chunks |-> chunks,
     launched |-> launched, exits |-> exits, immediate |-> immediate,
     errors |-> errors, doneLog |-> doneLog, exitCode |-> exitCode,
     trace |-> trace]

become(st) ==
    /\ config' = st.config
    /\ args' = st.args
    /\ files' = st.files
    /\ chunks' = st.chunks
    /\ launched' = st.launched
    /\ exits' = st.exits
    /\ immediate' = st.immediate
    /\ errors' = st.errors
    /\ doneLog' = st.doneLog
    /\ exitCode' = st.exitCode
    /\ trace' = st.trace
    /\ pc' = IF st.exitCode # -1 THEN "exited" ELSE "loop"
    /\ UNCHANGED <<variant, argv, env>>

Init ==
    /\ variant \in Variants
    /\ (InputsFilter \/ InputsChunks \/ InputsModes \/ InputsConfig)
    /\ pc = "start"
    /\ config = defaultConfig(variant)
    /\ args = <<>>
    /\ files = <<>>
    /\ chunks = <<>>
    /\ launched = <<>>
    /\ exits = <<>>
    /\ immediate = FALSE
    /\ errors = <<>>
    /\ doneLog = <<>>
    /\ exitCode = -1
    /\ trace = <<>>

running == {i \in 1..Len(exits) : exits[i] = -1}

\* The first tick: main() from its first line to its last
Main ==
    /\ pc = "start"
    /\ \E status \in StatusOutcomes :
          become(main(variant, argv, env, cur, status))

\* A formatter process ends and its 'close' listener runs
Close ==
    /\ pc = "loop"
    /\ env.execOk
    /\ \E i \in running, code \in ExitCodes, status \in StatusOutcomes :
          become(onClose(variant, argv, cur, i, code, status))

\* The queued setImmediate callback runs
Immediate ==
    /\ pc = "loop"
    /\ immediate
    /\ \E status \in StatusOutcomes :
          become(onImmediate(variant, argv, cur, status))

\* A formatter process that could not be started reports its 'error'
ChildError ==
    /\ pc = "loop"
    /\ ~env.execOk
    /\ \E i \in running : become(onUnhandledError(cur, i))

\* Nothing is left to wait for: node exits with code 0
Drain ==
    /\ pc = "loop"
    /\ running = {}
    /\ ~immediate
    /\ become(processExit(cur, 0))

Next == Main \/ Close \/ ChildError \/ Immediate \/ Drain

Spec == Init /\ [][Next]_vars

-----------------------------------------------------------------------------
(* Vocabulary of the properties *)

Range(q) == {q[i] : i \in DOMAIN q}

happened(ev) == \E i \in DOMAIN trace : trace[i].ev = ev

\* The tracked-file list the run filtered
tracked == listAllTrackedFiles(env)

\* Suffix, substring and prefix, stated by position
isSuffix(s, p) == \E i \in 0..Len(p) : SubSeq(p, i + 1, Len(p)) = s
occursAt(s, p, i) == i + Len(s) <= Len(p) /\ SubSeq(p, i + 1, i + Len(s)) = s
isSubstring(s, p) == \E i \in 0..Len(p) : occursAt(s, p, i)
isPrefix(s, p) == occursAt(s, p, 0)

\* The retention rule of the specification
shouldRetain(p, c) ==
    /\ \E s \in c.includeEndsWith : isSuffix(s, p)
    /\ \A s \in c.excludePathContains : ~isSubstring(s, p)
    /\ \A s \in c.excludePathEndsWith : ~isSuffix(s, p)
    /\ \A s \in c.excludePathStartsWith : ~isPrefix(s, p)

\* a is b with some elements left out, order kept
RECURSIVE isSubsequence(_, _)
isSubsequence(a, b) ==
    IF a = <<>> THEN TRUE
    ELSE IF b = <<>> THEN FALSE
    ELSE IF Head(a) = Head(b) THEN isSubsequence(Tail(a), Tail(b))
    ELSE isSubsequence(a, Tail(b))

RECURSIVE concatAll(_)
concatAll(qs) == IF qs = <<>> THEN <<>> ELSE Head(qs) \o concatAll(Tail(qs))

-----------------------------------------------------------------------------
(* The path filter *)

\* C1: once the filter has run, a tracked path is in `files` if and only if
\* it ends with an includeEndsWith entry, contains no excludePathContains
\* entry at any position, ends with no excludePathEndsWith entry and starts
\* with no excludePathStartsWith entry; with no includeEndsWith entry `files`
\* is empty.  index.ts breaks it: its test indexOf(_) > 0 misses position 0.
C1_RetainedIffRules ==
    happened("filter") =>
        /\ \A p \in Range(tracked) :
              p \in Range(files) <=> shouldRetain(p, config)
        /\ config.includeEndsWith = {} => files = <<>>

\* C1 holds of the two later versions
C1_LaterVersions == variant # "index" => C1_RetainedIffRules

\* C2: a tracked path that has an excludePathContains entry at index 0 is
\* not in `files` and is an argument of no formatter process.
C2_ExcludedAtIndexZero ==
    \A p \in Range(tracked) :
        (\E s \in config.excludePathContains : occursAt(s, p, 0)) =>
            /\ p \notin Range(files)
            /\ \A i \in DOMAIN launched : p \notin Range(launched[i])

\* C2 holds of the two later versions
C2_LaterVersions == variant # "index" => C2_ExcludedAtIndexZero

\* C3: `files` is a subsequence of the tracked list, and filtering `files`
\* again under the same rules gives `files`.
C3_SubsequenceIdempotent ==
    happened("filter") =>
        /\ isSubsequence(files, tracked)
        /\ filterFiles(variant, files, config) = files

\* C3 witness: of several tracked files the first is dropped, a later one kept
C3_Witness ==
    /\ happened("filter")
    /\ Len(tracked) >= 2
    /\ Len(files) >= 1
    /\ Len(files) < Len(tracked)
    /\ files[1] # tracked[1]

-----------------------------------------------------------------------------
(* Chunks *)

\* C4: for N filtered files there are ceil(N / 30) chunks (none for N = 0),
\* each holds 1 to 30 files, all but the last hold 30, and the chunks in
\* order concatenate to `files`.
C4_ChunksPartition ==
    happened("filter") =>
        /\ Len(chunks) = (Len(files) + 29) \div 30
        /\ \A k \in DOMAIN chunks :
              /\ Len(chunks[k]) >= 1
              /\ Len(chunks[k]) <= 30
              /\ k < Len(chunks) => Len(chunks[k]) = 30
        /\ concatAll(chunks) = files

\* C4 witness: 61 files in chunks of 30, 30 and 1
C4_Witness ==
    /\ happened("filter")
    /\ Len(files) = 61
    /\ Len(chunks) = 3
    /\ Len(chunks[3]) = 1

-----------------------------------------------------------------------------
(* Modes, as the specification defines them from the argument list *)

given(flag) == \E i \in DOMAIN argv : argv[i] = flag

rawMode == given(RAW_FLAG) \/ given(VERSION_FLAG)
helpMode == given(HELP_FLAG)
verifyMode == ~rawMode /\ ~helpMode /\ given(VERIFY_FLAG)
fixMode == ~rawMode /\ ~helpMode /\ ~given(VERIFY_FLAG)

\* The user's arguments in their order, -verify and -raw left out
RECURSIVE without(_, _)
without(a, S) ==
    IF a = <<>> THEN <<>>
    ELSE IF Head(a) \in S THEN without(Tail(a), S)
    ELSE <<Head(a)>> \o without(Tail(a), S)

passedOn == without(argv, {VERIFY_FLAG, RAW_FLAG})

styleArgument == IF config.style # "" THEN <<config.style>> ELSE <<>>

-----------------------------------------------------------------------------
(* Exit codes and the status query *)

\* C5: in FIX and VERIFY mode, a launcher that has exited after some chunk's
\* formatter ended with a nonzero code has exit code 3, and a launcher that
\* exited with 0 saw every formatter it launched end with 0; `done` gets no
\* error exactly when every launched formatter ended with 0.
\* index.ts breaks it: its errors list is read before any process has
\* closed, so a failed chunk leaves the exit code 0.
C5_FailureGivesExit3 ==
    (fixMode \/ verifyMode) =>
        /\ (pc = "exited" /\ \E i \in DOMAIN exits : exits[i] > 0)
              => exitCode = 3
        /\ exitCode = 0 => \A i \in DOMAIN exits : exits[i] = 0
        /\ (happened("filter") /\ running = {}) =>
              ((\E i \in DOMAIN doneLog : ~isError(doneLog[i]))
                  <=> \A i \in DOMAIN exits : exits[i] = 0)

\* C5 holds of the two later versions
C5_LaterVersions == variant # "index" => C5_FailureGivesExit3

\* C6: git status -s is asked only in VERIFY mode, only when every chunk has
\* been launched and every formatter has ended with 0; a dirty answer ends
\* the launcher with 2, a clean one lets it end with 0; in FIX and RAW mode
\* it is never asked.  index.ts breaks it: main() asks while the first
\* formatter still runs.
C6_StatusAfterAllChunks ==
    /\ happened("status") =>
          /\ verifyMode
          /\ Len(launched) = Len(chunks)
          /\ \A i \in DOMAIN exits : exits[i] = 0
    /\ (\E i \in DOMAIN trace : trace[i].ev = "status" /\ trace[i].n = 1)
          => exitCode = 2
    /\ (pc = "exited" /\
        \E i \in DOMAIN trace : trace[i].ev = "status" /\ trace[i].n = 0)
          => exitCode = 0
    /\ (fixMode \/ rawMode) => ~happened("status")

\* C6 holds of the two later versions
C6_LaterVersions == variant # "index" => C6_StatusAfterAllChunks

-----------------------------------------------------------------------------
(* RAW mode, --help, a missing binary *)

\* C7: with -raw or --version among the arguments, the configuration is not
\* loaded, git ls-tree and the filter do not run, the one formatter process
\* gets the user's arguments without -verify and -raw and nothing else, and
\* its exit code 0 gives launcher exit code 0.  index.ts breaks it: it has
\* no --version case and its -raw branch calls spawnClangFormat.
C7_RawPassthrough ==
    (rawMode /\ pc # "start") =>
        /\ ~happened("loadConfig")
        /\ ~happened("ls-tree")
        /\ ~happened("filter")
        /\ env.binaryOk => launched = <<passedOn>>
        /\ (pc = "exited" /\ exits = <<0>>) => exitCode = 0

\* C7 holds of the two later versions
C7_LaterVersions == variant # "index" => C7_RawPassthrough

\* C8: when getNativeBinary throws, no formatter process is launched, `done`
\* is called with an error, git status -s is not asked, and the launcher
\* ends with a nonzero exit code.  Every version breaks it:
\* setImmediate(done.bind(e)) makes `e` the `this` of done and passes no
\* argument.
C8_NoBinaryIsFailure ==
    happened("noBinary") =>
        /\ launched = <<>>
        /\ \A i \in DOMAIN doneLog : isError(doneLog[i])
        /\ ~happened("status")
        /\ pc = "exited" => exitCode # 0

\* C8, the part that holds: no formatter process after getNativeBinary threw
C8_NoProcessLaunched == happened("noBinary") => launched = <<>>

\* C9 as claimed: in FIX and VERIFY mode every formatter process gets the
\* style argument if set, -Werror, one mode flag (-i or --dry-run), the
\* user's arguments without -verify and -raw, then the files of its chunk.
C9_ArgVectorAsClaimed ==
    (fixMode \/ verifyMode) =>
        \A i \in DOMAIN launched :
            launched[i] =
                styleArgument \o <<"-Werror">>
                \o (IF verifyMode THEN <<"--dry-run">> ELSE <<"-i">>)
                \o passedOn \o chunks[i]

\* C9: in FIX and VERIFY mode every formatter process gets the style
\* argument if set, -Werror, the mode flag (-i in FIX; --dry-run in VERIFY,
\* followed by --verbose in index.ts and the folder version), the user's
\* arguments without -verify and -raw, then the files of its chunk.
C9_ArgVector ==
    (fixMode \/ verifyMode) =>
        \A i \in DOMAIN launched :
            launched[i] =
                styleArgument \o <<"-Werror">>
                \o (IF ~verifyMode THEN <<"-i">>
                    ELSE IF variant = "gitRoot" THEN <<"--dry-run">>
                    ELSE <<"--dry-run", "--verbose">>)
                \o passedOn \o chunks[i]

\* C9 witness: a second chunk launched in VERIFY mode, with a style set and
\* a user argument to pass on
C9_Witness ==
    /\ verifyMode
    /\ given("-x")
    /\ config.style # ""
    /\ Len(launched) = 2

\* C10: with --help among the arguments the usage text comes first and the
\* run is a raw passthrough: no configuration load, no git ls-tree, no
\* filter, no chunk, at most one formatter process, which gets the user's
\* arguments and no -i.  index.ts breaks it: --help does not select its raw
\* branch.
C10_HelpIsPassthrough ==
    (helpMode /\ pc # "start") =>
        /\ trace # <<>> /\ trace[1].ev = "help"
        /\ ~happened("loadConfig")
        /\ ~happened("ls-tree")
        /\ ~happened("filter")
        /\ chunks = <<>>
        /\ Len(launched) <= 1
        /\ \A i \in DOMAIN launched :
              launched[i] = passedOn /\ "-i" \notin Range(launched[i])

\* C10 holds of the two later versions
C10_LaterVersions == variant # "index" => C10_HelpIsPassthrough

-----------------------------------------------------------------------------
(* Configuration sources *)

\* package.json parses and holds the clang-format-launcher key
manifestKey ==
    /\ env.pkg.exists
    /\ env.pkg.valid
    /\ LAUNCHER \in DOMAIN env.pkg.json

unparsable(f) == f.exists /\ ~f.valid

endedBeforeListing ==
    /\ exitCode = 1
    /\ ~happened("ls-tree")
    /\ launched = <<>>
    /\ config = defaultConfig(variant)

\* C11 as claimed: once the configuration has been resolved, any existing
\* candidate (package.json, clang.format.json of the working directory, the
\* packaged default) that does not parse ends the run with exit code 1 before
\* git ls-tree and before any formatter launch.
C11_AnyCandidateStrict ==
    (happened("loadConfig")
        /\ (unparsable(env.pkg) \/ unparsable(env.conf) \/ unparsable(env.dflt)))
    => endedBeforeListing

\* C11: once the configuration has been resolved, a clang.format.json of the
\* working directory that does not parse ends the run with exit code 1
\* before git ls-tree and before any formatter launch, the defaults
\* untouched, unless package.json parses and holds the launcher key; a
\* package.json that does not parse counts as having no key and does not
\* end the run.
C11_DedicatedFileStrict ==
    happened("loadConfig") =>
        /\ (unparsable(env.conf) /\ ~manifestKey) => endedBeforeListing
        /\ (unparsable(env.pkg) /\ env.conf.exists /\ env.conf.valid
                /\ env.binaryOk)
           => happened("ls-tree")

\* C11 witness: neither package.json nor clang.format.json parses, and the
\* gitRoot version has ended with exit code 1 right after resolving
C11_Witness ==
    /\ variant = "gitRoot"
    /\ unparsable(env.pkg)
    /\ unparsable(env.conf)
    /\ happened("loadConfig")
    /\ exitCode = 1
    /\ trace[Len(trace)] = [ev |-> "exit", n |-> 1]

\* In the gitRoot version the packaged default is as strict: reached with
\* no manifest key and no clang.format.json, a packaged default that does
\* not parse, or no candidate at all, ends the run the same way
C11_PackagedDefault ==
    (variant = "gitRoot" /\ happened("loadConfig") /\ ~manifestKey
        /\ ~env.conf.exists /\ ~(env.dflt.exists /\ env.dflt.valid))
    => endedBeforeListing

\* The first existing source in the order of the specification: the launcher
\* key of package.json, clang.format.json of the working directory, the
\* packaged default
firstSource ==
    IF manifestKey THEN env.pkg
    ELSE IF env.conf.exists THEN env.conf
    ELSE env.dflt

\* The fields a parsed source gives: those under the launcher key if it has
\* one, its own otherwise
fieldsOf(f) ==
    IF LAUNCHER \in DOMAIN f.json THEN f.json[LAUNCHER] ELSE f.json

rootKey == IF variant = "gitRoot" THEN "gitRoot" ELSE "folder"

\* Field `name` as source `f` gives it, or else the built-in default
fieldFrom(f, name, builtIn) ==
    IF name \in DOMAIN fieldsOf(f) THEN fieldsOf(f)[name] ELSE builtIn

rootFrom(f) ==
    LET r == fieldFrom(f, rootKey, "/cwd") IN
    IF isPrefix("/", r) THEN r ELSE pathResolve("/cwd", r)

\* C12: the filter rules, root and style a run filters with come from the
\* first existing source in the order package.json launcher key,
\* clang.format.json of the working directory, packaged default; a field the
\* source omits has its built-in default, and with a manifest key present no
\* field comes from clang.format.json.  index.ts and the folder version
\* break it: they read clang.format.json only.
C12_Precedence ==
    happened("filter") =>
        /\ firstSource.exists /\ firstSource.valid
        /\ \A name \in {"includeEndsWith", "excludePathContains",
                         "excludePathEndsWith", "excludePathStartsWith",
                         "style"} :
              config[name] =
                  fieldFrom(firstSource, name, defaultConfig(variant)[name])
        /\ config.root = rootFrom(firstSource)

\* C12 holds of the gitRoot version
C12_GitRootVersion == variant = "gitRoot" => C12_Precedence

\* The gitRoot version filtering with a manifest key's fields although a
\* different clang.format.json exists
C12_ManifestWins ==
    /\ variant = "gitRoot"
    /\ happened("filter")
    /\ manifestKey
    /\ env.conf.exists /\ env.conf.valid
    /\ config.includeEndsWith = {".cpp"}
    /\ config.excludePathEndsWith = {}
    /\ files = <<>>

-----------------------------------------------------------------------------
(* The dispatch of the chunks *)

\* C13: when git ls-tree has run and exited nonzero the file list and the chunk list are
\* empty, no formatter process is launched, the completion handler has been
\* called once and without an error, the run reports 0 files, no error is
\* recorded and the exit code is never 3; in FIX mode the launcher ends with
\* exit code 0.
C13_ListingFailureIsEmpty ==
    (happened("ls-tree") /\ env.gitStarts /\ ~env.lsOk) =>
        /\ files = <<>>
        /\ chunks = <<>>
        /\ launched = <<>>
        /\ doneLog = <<undefined>>
        /\ \E i \in DOMAIN trace : trace[i] = [ev |-> "ran", n |-> 0]
        /\ errors = <<>>
        /\ exitCode # 3
        /\ fixMode => exitCode \in {-1, 0}

\* C13 witness: git ls-tree printed matching paths and exited nonzero, and
\* the FIX run has ended with exit code 0
C13_Witness ==
    /\ fixMode
    /\ env.gitStarts
    /\ ~env.lsOk
    /\ \E i \in DOMAIN env.lsLines :
          retained(variant, env.lsLines[i], config)
    /\ happened("ran")
    /\ exitCode = 0

\* A git that could not be started is another matter than a nonzero exit:
\* the exception of git() reaches main's catch, and the run ends with exit
\* code 1 right after the listing attempt, nothing filtered or launched and
\* the completion handler not called
GitNotStartedEndsRun ==
    (happened("ls-tree") /\ ~env.gitStarts) =>
        /\ exitCode = 1
        /\ ~happened("filter")
        /\ launched = <<>>
        /\ doneLog = <<>>
        /\ trace[Len(trace)] = [ev |-> "exit", n |-> 1]

\* A formatter process that cannot be started never closes: the run ends
\* with exit code 1, the completion handler not called for that process
UnstartedChildEndsRun ==
    (~env.execOk /\ launched # <<>> /\ pc = "exited") =>
        /\ exits = <<-1>>
        /\ ~happened("close")
        /\ ~happened("ran")
        /\ exitCode \in {1, 2}
        /\ variant # "index" => doneLog = <<>> /\ exitCode = 1

\* C14 as claimed: when the completion handler has been called after the
\* filter, every chunk has been launched, every launched process has exited
\* and none is running.
C14_AllBatchesCompleted ==
    (happened("filter") /\ doneLog # <<>>) =>
        /\ Len(launched) = Len(chunks)
        /\ \A i \in DOMAIN exits : exits[i] # -1
        /\ running = {}

\* C14: when the completion handler has been called after the filter, it has
\* been called once, no formatter process is running and every launched one
\* has exited; either every chunk was launched and exited with 0 and the
\* handler got no error, or the last launched process exited nonzero, all
\* before it with 0, the handler got that exit's error, and the chunks after
\* it were not launched.
C14_NoBatchPending ==
    (happened("filter") /\ doneLog # <<>>) =>
        /\ Len(doneLog) = 1
        /\ running = {}
        /\ Len(launched) <= Len(chunks)
        /\ \A i \in DOMAIN exits : exits[i] # -1
        /\ \/ /\ Len(launched) = Len(chunks)
              /\ \A i \in DOMAIN exits : exits[i] = 0
              /\ doneLog[1] = undefined
           \/ /\ launched # <<>>
              /\ exits[Len(exits)] # 0
              /\ \A i \in 1..(Len(exits) - 1) : exits[i] = 0
              /\ doneLog[1] = errorFromExitCode(exits[Len(exits)])

\* C14 witness: of three chunks the second one's process exited nonzero and
\* the handler was called with the third never launched
C14_Witness ==
    /\ happened("filter")
    /\ Len(chunks) = 3
    /\ Len(launched) = 2
    /\ exits[1] = 0
    /\ exits[2] = 2
    /\ doneLog = <<errorFromExitCode(2)>>

\* Position in the trace of the first occurrence of an event, 0 if none
firstAt(ev, n) ==
    LET at == {i \in DOMAIN trace : trace[i] = [ev |-> ev, n |-> n]}
    IN  IF at = {} THEN 0 ELSE CHOOSE i \in at : \A j \in at : i <= j

\* C15: at every moment at most one formatter process is running; after the
\* filter, process k is launched with the arguments followed by chunk k, so
\* the launch order is the chunk order, and process k + 1 is launched only
\* after process k has closed.
C15_OneAtATime ==
    /\ Cardinality(running) <= 1
    /\ happened("filter") =>
          /\ Len(launched) <= Len(chunks)
          /\ \A k \in DOMAIN launched :
                /\ launched[k] = args \o chunks[k]
                /\ firstAt("spawn", k) > 0
                /\ k > 1 =>
                      /\ exits[k - 1] # -1
                      /\ firstAt("close", k - 1) > firstAt("spawn", k - 1)
                      /\ firstAt("close", k - 1) < firstAt("spawn", k)

\* C15 witness: the third chunk's process is running, the first two closed
C15_Witness ==
    /\ happened("filter")
    /\ Len(chunks) = 3
    /\ Len(launched) = 3
    /\ running = {3}
    /\ launched[3] = args \o <<files[61]>>

\* C16: once a chunk's process has exited with a nonzero code it is the last
\* process launched, all before it exited with 0, the completion handler has
\* been called exactly once, with the error of that exit, and the count of
\* files formatted has not been printed.
C16_FailFast ==
    happened("filter") =>
        \A k \in DOMAIN exits :
            exits[k] > 0 =>
                /\ k = Len(launched)
                /\ \A i \in 1..(k - 1) : exits[i] = 0
                /\ doneLog = <<errorFromExitCode(exits[k])>>
                /\ ~happened("ran")

\* C16 witness: the first of several chunks failed, the launcher has ended,
\* and the other chunks were never launched
C16_Witness ==
    /\ happened("filter")
    /\ Len(chunks) >= 2
    /\ Len(launched) = 1
    /\ exits = <<1>>
    /\ doneLog = <<errorFromExitCode(1)>>
    /\ pc = "exited"

=============================================================================
